---------------------------- MODULE Spec2Model ----------------------------
(***************************************************************************)
(* TaskManager: the Task record (Task.cpp), the list model (TaskModel.cpp) *)
(* and the statistics controller (TaskController.cpp).                     *)
(*                                                                         *)
(* Everything runs on one thread and every signal is delivered by a direct *)
(* connection, so a public call runs to completion, slots included, before *)
(* it returns.  Each public call is therefore one step.  The code of every *)
(* call is written as an operator from the model's state to the state it   *)
(* leaves, the value it returns and the signals it emitted, in order.      *)
(*                                                                         *)
(* A QString is a sequence of one-character strings.  A Task* is the       *)
(* task's id, which no other task ever has.  List positions are 0-based as *)
(* in the code; tasks[i] of the code is tasks[i + 1] here.                 *)
(***************************************************************************)
EXTENDS Integers, Sequences, FiniteSets, TLC

VARIABLES tasks, nextId, op, ret, emitted, wf

vars == <<tasks, nextId, op, ret, emitted, wf>>

--------------------------------------------------------------------------
(* Bounds of the exploration.                                              *)

\* Tasks constructed in one run of Spec.
MaxCreated == 4
\* Tasks constructed in one run of SpecCreate.
MaxCreateTasks == 2
\* Tasks constructed in one run of SpecPriority.
MaxPriorityTasks == 2
\* Tasks constructed in one run of SpecFields.
MaxFieldTasks == 2
\* Tasks constructed in one run of SpecQuery.
MaxQueryTasks == 3
\* Tasks constructed in one run of SpecController.
MaxControllerTasks == 4

--------------------------------------------------------------------------
(* Program constants.                                                      *)

Low == 0
Medium == 1
High == 2

UserRole == 256
DisplayRole == 0
TitleRole == UserRole + 1
DescriptionRole == UserRole + 2
CompletedRole == UserRole + 3
CreatedAtRole == UserRole + 4
PriorityRole == UserRole + 5
TaskObjectRole == UserRole + 6

\* What a call returns: a bool as "true" or "false", nothing as "void".
Void == "void"
True == "true"
False == "false"
\* The row of an invalid QModelIndex.
NoRow == -1

--------------------------------------------------------------------------
(* QString.                                                                *)

isSpace(c) == c \in {" ", "\t", "\n"}

RECURSIVE dropLeadingSpace(_)
dropLeadingSpace(s) ==
    IF s # <<>> /\ isSpace(Head(s)) THEN dropLeadingSpace(Tail(s)) ELSE s

RECURSIVE dropTrailingSpace(_)
dropTrailingSpace(s) ==
    IF s # <<>> /\ isSpace(s[Len(s)])
    THEN dropTrailingSpace(SubSeq(s, 1, Len(s) - 1))
    ELSE s

\* QString::trimmed(): whitespace removed from both ends, the inside kept.
trimmed(s) == dropTrailingSpace(dropLeadingSpace(s))

isEmpty(s) == Len(s) = 0

--------------------------------------------------------------------------
(* QVariant: a value tagged with the type it was built from.               *)

VInt(n) == [type |-> "int", int |-> n, bool |-> FALSE, str |-> <<>>]
VBool(b) == [type |-> "bool", int |-> 0, bool |-> b, str |-> <<>>]
VString(s) == [type |-> "string", int |-> 0, bool |-> FALSE, str |-> s]
\* A QDateTime, held as the reading of the clock.
VDateTime(t) == [type |-> "datetime", int |-> t, bool |-> FALSE, str |-> <<>>]
\* A Task*, held as the task's id.
VObject(p) == [type |-> "object", int |-> p, bool |-> FALSE, str |-> <<>>]
\* QVariant(): the invalid variant.
VInvalid == [type |-> "invalid", int |-> 0, bool |-> FALSE, str |-> <<>>]

Digits == <<"0", "1", "2", "3", "4", "5", "6", "7", "8", "9">>

isDigit(c) == \E d \in 1..10 : Digits[d] = c

digitValue(c) == (CHOOSE d \in 1..10 : Digits[d] = c) - 1

RECURSIVE parseDigits(_, _)
parseDigits(s, acc) ==
    IF s = <<>> THEN acc ELSE parseDigits(Tail(s), 10 * acc + digitValue(Head(s)))

\* QString::toInt(): an optional sign and decimal digits, 0 when it is not a number.
stringToInt(s) ==
    LET t == trimmed(s)
        neg == t # <<>> /\ Head(t) = "-"
        body == IF t # <<>> /\ Head(t) \in {"-", "+"} THEN Tail(t) ELSE t
    IN  IF body # <<>> /\ \A k \in 1..Len(body) : isDigit(body[k])
        THEN IF neg THEN 0 - parseDigits(body, 0) ELSE parseDigits(body, 0)
        ELSE 0

RECURSIVE natToString(_)
natToString(n) ==
    IF n < 10 THEN <<Digits[n + 1]>>
    ELSE natToString(n \div 10) \o <<Digits[(n % 10) + 1]>>

intToString(n) == IF n < 0 THEN <<"-">> \o natToString(0 - n) ELSE natToString(n)

toInt(v) ==
    CASE v.type = "int" -> v.int
      [] v.type = "bool" -> IF v.bool THEN 1 ELSE 0
      [] v.type = "string" -> stringToInt(v.str)
      [] OTHER -> 0

toBool(v) ==
    CASE v.type = "int" -> v.int # 0
      [] v.type = "bool" -> v.bool
      [] v.type = "string" ->
            ~ (isEmpty(v.str) \/ v.str = <<"0">> \/ v.str = <<"f", "a", "l", "s", "e">>)
      [] OTHER -> FALSE

toString(v) ==
    CASE v.type = "int" -> intToString(v.int)
      [] v.type = "bool" ->
            IF v.bool THEN <<"t", "r", "u", "e">> ELSE <<"f", "a", "l", "s", "e">>
      [] v.type = "string" -> v.str
      [] OTHER -> <<>>

--------------------------------------------------------------------------
(* Task (Task.h, Task.cpp).                                                *)

\* QDateTime::currentDateTime() as a task is constructed: the reading of a
\* logical clock that has ticked once for every task constructed so far.
currentDateTime(constructed) == constructed

\* Task::Task(title, description, parent).  id stands for the address of the
\* new object.
Task(title, description, id, now) ==
    [id |-> id, title |-> title, description |-> description,
     completed |-> FALSE, createdAt |-> now, priority |-> Medium]

getTitle(task) == task.title
getDescription(task) == task.description
getCompleted(task) == task.completed
getDateTime(task) == task.createdAt
getPriority(task) == task.priority

\* A setter leaves the task and the signals it emitted.
setTitle(task, ttl) ==
    IF task.title # ttl
    THEN [task |-> [task EXCEPT !.title = ttl], sigs |-> <<"titleChanged">>]
    ELSE [task |-> task, sigs |-> <<>>]

setDescription(task, desc) ==
    IF task.description # desc
    THEN [task |-> [task EXCEPT !.description = desc], sigs |-> <<"descriptionChanged">>]
    ELSE [task |-> task, sigs |-> <<>>]

setCompleted(task, comp) ==
    IF task.completed # comp
    THEN [task |-> [task EXCEPT !.completed = comp], sigs |-> <<"completedChanged">>]
    ELSE [task |-> task, sigs |-> <<>>]

\* The range test reads the field, not the argument.
setPriority(task, prio) ==
    IF task.priority >= Low /\ task.priority <= High /\ task.priority # prio
    THEN [task |-> [task EXCEPT !.priority = prio], sigs |-> <<"priorityChanged">>]
    ELSE [task |-> task, sigs |-> <<>>]

isValid(task) == ~ isEmpty(trimmed(task.title))

priorityString(task) ==
    CASE task.priority = Low -> "Low"
      [] task.priority = Medium -> "Medium"
      [] task.priority = High -> "High"
      [] OTHER -> "Unknown"

--------------------------------------------------------------------------
(* Signals.  An entry of a log is one emission: the signal, the row of a   *)
(* model signal, the roles of a dataChanged, and for a statistics signal   *)
(* the value its property getter returns to a slot that reads it at once.  *)

Signal(name, row, roles, seen) ==
    [sig |-> name, row |-> row, roles |-> roles, seen |-> seen]

\* A signal that carries no value has the same mark as one that names no row.
NoValue == NoRow

--------------------------------------------------------------------------
(* TaskModel reads (TaskModel.cpp) and the controller's statistics.        *)

\* QAbstractListModel::index(row): invalid when the row is not in the list.
index(ts, row) == IF row >= 0 /\ row < Len(ts) THEN row ELSE NoRow

indexIsValid(idx) == idx >= 0

count(ts) == Len(ts)

rowCount(ts) == Len(ts)

data(ts, idx, role) ==
    IF ~ indexIsValid(idx) \/ idx >= Len(ts) THEN VInvalid
    ELSE LET task == ts[idx + 1]
         IN  CASE role = TitleRole -> VString(getTitle(task))
               [] role = DescriptionRole -> VString(getDescription(task))
               [] role = CompletedRole -> VBool(getCompleted(task))
               [] role = CreatedAtRole -> VDateTime(getDateTime(task))
               [] role = PriorityRole -> VInt(getPriority(task))
               [] role = TaskObjectRole -> VObject(task.id)
               [] OTHER -> VInvalid

nullptr == 0

getTask(ts, i) == IF i < 0 \/ i >= Len(ts) THEN nullptr ELSE ts[i + 1].id

\* QList::indexOf: the first position holding the pointer, -1 when none does.
indexOf(ts, id) ==
    IF \E k \in 1..Len(ts) : ts[k].id = id
    THEN (CHOOSE k \in 1..Len(ts) : ts[k].id = id /\ \A j \in 1..(k - 1) : ts[j].id # id) - 1
    ELSE -1

totalTasks(ts) == count(ts)

RECURSIVE completedFrom(_, _, _)
completedFrom(ts, i, n) ==
    IF i < count(ts)
    THEN completedFrom(ts, i + 1,
            IF toBool(data(ts, index(ts, i), CompletedRole)) THEN n + 1 ELSE n)
    ELSE n

\* Mutant: the scan starts at row 1.
completedTasks_fromRowOne(ts) == completedFrom(ts, 1, 0)

completedTasks(ts) == completedFrom(ts, 0, 0)

pendingTasks(ts) == totalTasks(ts) - completedTasks(ts)

--------------------------------------------------------------------------
(* The controller's slots (TaskController.cpp).                            *)

updateStatistics(ts) ==
    << Signal("totalTasksChanged", NoRow, {}, totalTasks(ts)),
       Signal("completedTasksChanged", NoRow, {}, completedTasks(ts)),
       Signal("pendingTasksChanged", NoRow, {}, pendingTasks(ts)) >>

onModelCountChanged(ts) == updateStatistics(ts)

onModelDataChanged(ts, roles) ==
    IF CompletedRole \in roles THEN updateStatistics(ts) ELSE <<>>

\* emit countChanged(), with the slot connected to it.
countChanged(ts) ==
    <<Signal("countChanged", NoRow, {}, NoValue)>> \o onModelCountChanged(ts)

\* emit dataChanged(index, index, roles), with the slot connected to it.
dataChanged(ts, row, roles) ==
    <<Signal("dataChanged", row, roles, NoValue)>> \o onModelDataChanged(ts, roles)

\* TaskModel::onTaskChanged with sender() = the task of this id.
onTaskChanged(ts, id) ==
    LET idx == indexOf(ts, id)
    IN  IF idx >= 0 THEN dataChanged(ts, idx, {}) ELSE <<>>

\* The signals of a task's setter, each followed by the model's slot.
RECURSIVE emitTaskSignals(_, _, _)
emitTaskSignals(ts, id, sigs) ==
    IF sigs = <<>> THEN <<>>
    ELSE <<Signal(Head(sigs), NoRow, {}, NoValue)>> \o onTaskChanged(ts, id)
            \o emitTaskSignals(ts, id, Tail(sigs))

--------------------------------------------------------------------------
(* TaskModel writes (TaskModel.cpp).  m is the model object: its list and  *)
(* the number of tasks constructed so far.  A call leaves the model, the   *)
(* value returned and the signals emitted.                                 *)

Result(m, r, log) == [m |-> m, ret |-> r, log |-> log]

\* A setter called on the task at a row: the task is updated in place and
\* its signal reaches onTaskChanged with the field already written.
callSetter(m, row, r) ==
    LET ts == [m.tasks EXCEPT ![row + 1] = r.task]
    IN  [m |-> [m EXCEPT !.tasks = ts],
         log |-> emitTaskSignals(ts, r.task.id, r.sigs)]

\* Mutant: the selector of createdAt is writable.
setData_writesCreatedAt(m, idx, value, role) ==
    IF ~ indexIsValid(idx) \/ idx >= Len(m.tasks) THEN Result(m, False, <<>>)
    ELSE LET task == m.tasks[idx + 1]
             known == role \in {TitleRole, DescriptionRole, CompletedRole, PriorityRole,
                                CreatedAtRole}
             set == CASE role = TitleRole -> setTitle(task, toString(value))
                      [] role = DescriptionRole -> setDescription(task, toString(value))
                      [] role = CompletedRole -> setCompleted(task, toBool(value))
                      [] role = PriorityRole -> setPriority(task, toInt(value))
                      [] role = CreatedAtRole ->
                            [task |-> [task EXCEPT !.createdAt = toInt(value)], sigs |-> <<>>]
                      [] OTHER -> [task |-> task, sigs |-> <<>>]
             c == callSetter(m, idx, set)
         IN  IF ~ known THEN Result(m, False, <<>>)
             ELSE Result(c.m, True, c.log \o dataChanged(c.m.tasks, idx, {role}))

\* Mutant: a selector that is not writable passes for written.
setData_acceptsAnyRole(m, idx, value, role) ==
    IF ~ indexIsValid(idx) \/ idx >= Len(m.tasks) THEN Result(m, False, <<>>)
    ELSE LET task == m.tasks[idx + 1]
             set == CASE role = TitleRole -> setTitle(task, toString(value))
                      [] role = DescriptionRole -> setDescription(task, toString(value))
                      [] role = CompletedRole -> setCompleted(task, toBool(value))
                      [] role = PriorityRole -> setPriority(task, toInt(value))
                      [] OTHER -> [task |-> task, sigs |-> <<>>]
             c == callSetter(m, idx, set)
         IN  Result(c.m, True, c.log \o dataChanged(c.m.tasks, idx, {role}))

setData(m, idx, value, role) ==
    IF ~ indexIsValid(idx) \/ idx >= Len(m.tasks) THEN Result(m, False, <<>>)
    ELSE LET task == m.tasks[idx + 1]
             known == role \in {TitleRole, DescriptionRole, CompletedRole, PriorityRole}
             set == CASE role = TitleRole -> setTitle(task, toString(value))
                      [] role = DescriptionRole -> setDescription(task, toString(value))
                      [] role = CompletedRole -> setCompleted(task, toBool(value))
                      [] role = PriorityRole -> setPriority(task, toInt(value))
                      [] OTHER -> [task |-> task, sigs |-> <<>>]
             c == callSetter(m, idx, set)
         IN  IF ~ known THEN Result(m, False, <<>>)
             ELSE Result(c.m, True, c.log \o dataChanged(c.m.tasks, idx, {role}))

\* Mutant: countChanged is emitted before the task is appended.
addTask_emitsBeforeAppend(m, title, description) ==
    IF isEmpty(trimmed(title)) THEN Result(m, False, <<>>)
    ELSE LET first == Len(m.tasks)
             task == Task(trimmed(title), description, m.nextId + 1,
                          currentDateTime(m.nextId + 1))
             ts == Append(m.tasks, task)
         IN  Result([tasks |-> ts, nextId |-> m.nextId + 1], True,
                    countChanged(m.tasks) \o <<Signal("rowsInserted", first, {}, NoValue)>>)

\* Mutant: the new task is put first.
addTask_prepends(m, title, description) ==
    IF isEmpty(trimmed(title)) THEN Result(m, False, <<>>)
    ELSE LET task == Task(trimmed(title), description, m.nextId + 1,
                          currentDateTime(m.nextId + 1))
             ts == <<task>> \o m.tasks
         IN  Result([tasks |-> ts, nextId |-> m.nextId + 1], True,
                    <<Signal("rowsInserted", 0, {}, NoValue)>> \o countChanged(ts))

\* Mutant: the title is tested for emptiness without being trimmed.
addTask_testsUntrimmed(m, title, description) ==
    IF isEmpty(title) THEN Result(m, False, <<>>)
    ELSE LET first == Len(m.tasks)
             task == Task(trimmed(title), description, m.nextId + 1,
                          currentDateTime(m.nextId + 1))
             ts == Append(m.tasks, task)
         IN  Result([tasks |-> ts, nextId |-> m.nextId + 1], True,
                    <<Signal("rowsInserted", first, {}, NoValue)>> \o countChanged(ts))

addTask(m, title, description) ==
    IF isEmpty(trimmed(title)) THEN Result(m, False, <<>>)
    ELSE LET first == Len(m.tasks)
             task == Task(trimmed(title), description, m.nextId + 1,
                          currentDateTime(m.nextId + 1))
             ts == Append(m.tasks, task)
         IN  Result([tasks |-> ts, nextId |-> m.nextId + 1], True,
                    <<Signal("rowsInserted", first, {}, NoValue)>> \o countChanged(ts))

\* QList::takeAt(i): the list without its i-th element.
takeAt(ts, i) == SubSeq(ts, 1, i) \o SubSeq(ts, i + 2, Len(ts))

\* Mutant: countChanged is emitted twice.
removeTask_countChangedTwice(m, i) ==
    IF i < 0 \/ i >= Len(m.tasks) THEN Result(m, False, <<>>)
    ELSE LET ts == takeAt(m.tasks, i)
         IN  Result([m EXCEPT !.tasks = ts], True,
                    <<Signal("rowsRemoved", i, {}, NoValue)>> \o countChanged(ts)
                        \o countChanged(ts))

\* Mutant: the last task is taken whatever the index.
removeTask_takesLast(m, i) ==
    IF i < 0 \/ i >= Len(m.tasks) THEN Result(m, False, <<>>)
    ELSE LET ts == takeAt(m.tasks, Len(m.tasks) - 1)
         IN  Result([m EXCEPT !.tasks = ts], True,
                    <<Signal("rowsRemoved", i, {}, NoValue)>> \o countChanged(ts))

\* Mutant: the index one past the end passes the bounds test.
removeTask_acceptsEnd(m, i) ==
    IF i < 0 \/ i > Len(m.tasks) THEN Result(m, False, <<>>)
    ELSE LET ts == takeAt(m.tasks, i)
         IN  Result([m EXCEPT !.tasks = ts], True,
                    <<Signal("rowsRemoved", i, {}, NoValue)>> \o countChanged(ts))

removeTask(m, i) ==
    IF i < 0 \/ i >= Len(m.tasks) THEN Result(m, False, <<>>)
    ELSE LET ts == takeAt(m.tasks, i)
         IN  Result([m EXCEPT !.tasks = ts], True,
                    <<Signal("rowsRemoved", i, {}, NoValue)>> \o countChanged(ts))

\* Mutant: the first task is toggled whatever the index.
toggleCompleted_firstRow(m, i) ==
    IF i < 0 \/ i >= Len(m.tasks) THEN Result(m, Void, <<>>)
    ELSE LET task == m.tasks[1]
             c == callSetter(m, 0, setCompleted(task, ~ getCompleted(task)))
         IN  Result(c.m, Void, c.log)

toggleCompleted(m, i) ==
    IF i < 0 \/ i >= Len(m.tasks) THEN Result(m, Void, <<>>)
    ELSE LET task == m.tasks[i + 1]
             c == callSetter(m, i, setCompleted(task, ~ getCompleted(task)))
         IN  Result(c.m, Void, c.log)

\* The loop of clearCompleted from position i down to 0.
RECURSIVE clearCompletedFrom(_, _, _)
clearCompletedFrom(m, i, log) ==
    IF i < 0 THEN Result(m, Void, log)
    ELSE IF getCompleted(m.tasks[i + 1])
         THEN LET r == removeTask(m, i)
              IN  clearCompletedFrom(r.m, i - 1, log \o r.log)
         ELSE clearCompletedFrom(m, i - 1, log)

\* Mutant: the loop runs upwards, so the row after a removed one is skipped.
RECURSIVE clearCompletedUpFrom(_, _, _)
clearCompletedUpFrom(m, i, log) ==
    IF i >= Len(m.tasks) THEN Result(m, Void, log)
    ELSE IF getCompleted(m.tasks[i + 1])
         THEN LET r == removeTask(m, i)
              IN  clearCompletedUpFrom(r.m, i + 1, log \o r.log)
         ELSE clearCompletedUpFrom(m, i + 1, log)

clearCompleted_ascending(m) == clearCompletedUpFrom(m, 0, <<>>)

\* Mutant: the loop ends at the first task it removes.
RECURSIVE clearCompletedOnceFrom(_, _)
clearCompletedOnceFrom(m, i) ==
    IF i < 0 THEN Result(m, Void, <<>>)
    ELSE IF getCompleted(m.tasks[i + 1])
         THEN LET r == removeTask(m, i) IN Result(r.m, Void, r.log)
         ELSE clearCompletedOnceFrom(m, i - 1)

clearCompleted_stopsAtFirst(m) == clearCompletedOnceFrom(m, Len(m.tasks) - 1)

\* Mutant: the loop ends before row 0.
RECURSIVE clearCompletedAboveFirstFrom(_, _, _)
clearCompletedAboveFirstFrom(m, i, log) ==
    IF i <= 0 THEN Result(m, Void, log)
    ELSE IF getCompleted(m.tasks[i + 1])
         THEN LET r == removeTask(m, i)
              IN  clearCompletedAboveFirstFrom(r.m, i - 1, log \o r.log)
         ELSE clearCompletedAboveFirstFrom(m, i - 1, log)

clearCompleted_skipsFirst(m) == clearCompletedAboveFirstFrom(m, Len(m.tasks) - 1, <<>>)

clearCompleted(m) == clearCompletedFrom(m, Len(m.tasks) - 1, <<>>)

--------------------------------------------------------------------------
(* TaskController operations (TaskController.cpp).                         *)

\* Mutant: the priority is applied without a range test.
createTask_appliesAnyPriority(m, title, description, priority) ==
    LET a == addTask(m, title, description)
    IN  IF a.ret = True
        THEN LET lastIndex == count(a.m.tasks) - 1
                 s == setData(a.m, index(a.m.tasks, lastIndex), VInt(priority), PriorityRole)
             IN  Result(s.m, a.ret, a.log \o s.log)
        ELSE a

\* Mutant: the range test has no upper end.
createTask_acceptsAboveHigh(m, title, description, priority) ==
    LET a == addTask(m, title, description)
    IN  IF a.ret = True /\ priority >= Low
        THEN LET lastIndex == count(a.m.tasks) - 1
                 s == setData(a.m, index(a.m.tasks, lastIndex), VInt(priority), PriorityRole)
             IN  Result(s.m, a.ret, a.log \o s.log)
        ELSE a

\* Mutant: the range test leaves Low out.
createTask_skipsLow(m, title, description, priority) ==
    LET a == addTask(m, title, description)
    IN  IF a.ret = True /\ priority > Low /\ priority <= High
        THEN LET lastIndex == count(a.m.tasks) - 1
                 s == setData(a.m, index(a.m.tasks, lastIndex), VInt(priority), PriorityRole)
             IN  Result(s.m, a.ret, a.log \o s.log)
        ELSE a

createTask(m, title, description, priority) ==
    LET a == addTask(m, title, description)
    IN  IF a.ret = True /\ priority >= Low /\ priority <= High
        THEN LET lastIndex == count(a.m.tasks) - 1
                 s == setData(a.m, index(a.m.tasks, lastIndex), VInt(priority), PriorityRole)
             IN  Result(s.m, a.ret, a.log \o s.log)
        ELSE a

deleteTask(m, i) == removeTask(m, i)

toggleTask(m, i) ==
    LET t == toggleCompleted(m, i)
    IN  Result(t.m, Void, t.log \o updateStatistics(t.m.tasks))

\* toggleTask as it would be without its call of updateStatistics().
toggleTask_withoutUpdate(m, i) ==
    LET t == toggleCompleted(m, i)
    IN  Result(t.m, Void, t.log)

clearCompletedTasks(m) == clearCompleted(m)

SampleTitle1 == <<"L", "e", "a", "r", "n", " ", "Q", "t", " ", "Q", "M", "L">>
SampleDescription1 == <<"S", "t", "u", "d", "y", " ", "Q", "t", " ", "Q", "u", "i", "c", "k",
                        " ", "a", "n", "d", " ", "Q", "M", "L", " ", "b", "a", "s", "i", "c", "s">>
SampleTitle2 == <<"W", "r", "i", "t", "e", " ", "u", "n", "i", "t", " ", "t", "e", "s", "t", "s">>
SampleDescription2 == <<"A", "d", "d", " ", "c", "o", "m", "p", "r", "e", "h", "e", "n", "s", "i",
                        "v", "e", " ", "t", "e", "s", "t", " ", "c", "o", "v", "e", "r", "a", "g", "e">>
SampleTitle3 == <<"D", "o", "c", "u", "m", "e", "n", "t", "a", "t", "i", "o", "n">>
SampleDescription3 == <<"W", "r", "i", "t", "e", " ", "p", "r", "o", "j", "e", "c", "t", " ",
                        "d", "o", "c", "u", "m", "e", "n", "t", "a", "t", "i", "o", "n">>
SampleTitle4 == <<"C", "o", "d", "e", " ", "r", "e", "v", "i", "e", "w">>
SampleDescription4 == <<"R", "e", "v", "i", "e", "w", " ", "p", "u", "l", "l", " ",
                        "r", "e", "q", "u", "e", "s", "t", "s">>

loadSampleData(m) ==
    LET c1 == createTask(m, SampleTitle1, SampleDescription1, Medium)
        c2 == createTask(c1.m, SampleTitle2, SampleDescription2, High)
        c3 == createTask(c2.m, SampleTitle3, SampleDescription3, Low)
        c4 == createTask(c3.m, SampleTitle4, SampleDescription4, Medium)
    IN  Result(c4.m, Void, c1.log \o c2.log \o c3.log \o c4.log)

RECURSIVE priorityIndicesFrom(_, _, _, _)
priorityIndicesFrom(ts, i, priority, indices) ==
    IF i < count(ts)
    THEN priorityIndicesFrom(ts, i + 1, priority,
            IF toInt(data(ts, index(ts, i), PriorityRole)) = priority
            THEN Append(indices, i) ELSE indices)
    ELSE indices

\* Mutant: the scan starts at row 1.
getTasksByPriority_fromRowOne(ts, priority) == priorityIndicesFrom(ts, 1, priority, <<>>)

getTasksByPriority(ts, priority) == priorityIndicesFrom(ts, 0, priority, <<>>)

RECURSIVE completedIndicesFrom(_, _, _)
completedIndicesFrom(ts, i, indices) ==
    IF i < count(ts)
    THEN completedIndicesFrom(ts, i + 1,
            IF toBool(data(ts, index(ts, i), CompletedRole))
            THEN Append(indices, i) ELSE indices)
    ELSE indices

getCompletedTasks(ts) == completedIndicesFrom(ts, 0, <<>>)

RECURSIVE pendingIndicesFrom(_, _, _)
pendingIndicesFrom(ts, i, indices) ==
    IF i < count(ts)
    THEN pendingIndicesFrom(ts, i + 1,
            IF ~ toBool(data(ts, index(ts, i), CompletedRole))
            THEN Append(indices, i) ELSE indices)
    ELSE indices

\* Mutant: the scan starts at row 1.
getPendingTasks_fromRowOne(ts) == pendingIndicesFrom(ts, 1, <<>>)

getPendingTasks(ts) == pendingIndicesFrom(ts, 0, <<>>)

--------------------------------------------------------------------------
(* The state machine.  tasks is TaskModel::tasks; nextId counts the tasks  *)
(* constructed.  op, ret and emitted are the last public call: its name,   *)
(* the value it returned, the signals emitted while it ran.  wf is the     *)
(* position in the workflow scenario, 0 outside it.                        *)

M == [tasks |-> tasks, nextId |-> nextId]

\* The state after construction: TaskController() builds an empty model.
Init ==
    /\ tasks = <<>>
    /\ nextId = 0
    /\ op = "TaskController"
    /\ ret = Void
    /\ emitted = <<>>
    /\ wf = 0

\* One public call, run to completion.
Call(name, r) ==
    /\ tasks' = r.m.tasks
    /\ nextId' = r.m.nextId
    /\ op' = name
    /\ ret' = r.ret
    /\ emitted' = r.log

CreateTask(t, d, p) == Call("createTask", createTask(M, t, d, p))
DeleteTask(i) == Call("deleteTask", deleteTask(M, i))
ToggleTask(i) == Call("toggleTask", toggleTask(M, i))
ClearCompletedTasks == Call("clearCompletedTasks", clearCompletedTasks(M))
LoadSampleData == Call("loadSampleData", loadSampleData(M))

AddTask(t, d) == Call("addTask", addTask(M, t, d))
RemoveTask(i) == Call("removeTask", removeTask(M, i))
ToggleCompleted(i) == Call("toggleCompleted", toggleCompleted(M, i))
ClearCompleted == Call("clearCompleted", clearCompleted(M))
SetData(i, v, role) == Call("setData", setData(M, index(tasks, i), v, role))

\* The const queries of the controller: the list is read and a QList<int> returned.
GetTasksByPriority(p) == Call("getTasksByPriority", Result(M, getTasksByPriority(tasks, p), <<>>))
GetCompletedTasks == Call("getCompletedTasks", Result(M, getCompletedTasks(tasks), <<>>))
GetPendingTasks == Call("getPendingTasks", Result(M, getPendingTasks(tasks), <<>>))

\* A setter called on the pointer getTask(i) returns.
OnTask(name, i, r) ==
    /\ getTask(tasks, i) # nullptr
    /\ LET c == callSetter(M, i, r) IN Call(name, Result(c.m, Void, c.log))

SetTitle(i, ttl) == OnTask("setTitle", i, setTitle(tasks[i + 1], ttl))
SetDescription(i, desc) == OnTask("setDescription", i, setDescription(tasks[i + 1], desc))
SetCompleted(i, comp) == OnTask("setCompleted", i, setCompleted(tasks[i + 1], comp))
SetPriority(i, prio) == OnTask("setPriority", i, setPriority(tasks[i + 1], prio))

--------------------------------------------------------------------------
(* Inputs.                                                                 *)

\* Titles: empty, whitespace only, plain, padded, padded with an inner space.
BlankTitles == { <<>>, <<" ">>, <<" ", "\t">> }
PlainTitles == { <<"a">>, <<" ", "a", " ">> }
InnerTitles == { <<"\t", "b", " ", "c", " ">> }
Titles == BlankTitles \cup PlainTitles \cup InnerTitles
Descriptions == { <<>>, <<" ", "d">> }
\* Priorities: the three levels and a value on each side of them.
Priorities == (Low - 1)..(High + 1)
\* Positions: every row of the list and one on each side.
Positions == -1..Len(tasks)
Bools == {TRUE, FALSE}

\* What is written through the completed selector, and what is offered to the
\* selectors setData refuses.
CompletedValues == {VBool(TRUE), VBool(FALSE), VInt(High), VString(<<"0">>)}
RefusedRoles == {CreatedAtRole, TaskObjectRole, DisplayRole}
\* What is written through the priority selector.
PriorityValues == {VInt(p) : p \in Priorities} \cup {VBool(TRUE), VString(<<"2">>)}

\* What the setters of a task are called with: for each field its value after
\* createTask("a", "", Medium) and another one; for the priority also one
\* past High.
FieldTitles == { <<"a">>, <<" ">> }
FieldDescriptions == { <<>>, <<"d">> }
FieldPriorities == {Medium, High, High + 1}
\* What setData is called with: a value for every selector, some of a type
\* the selector converts.
FieldWrites ==
    { <<VString(<<" ">>), TitleRole>>, <<VString(<<"a">>), TitleRole>>,
      <<VString(<<"d">>), DescriptionRole>>,
      <<VBool(TRUE), CompletedRole>>, <<VString(<<"0">>), CompletedRole>>,
      <<VInt(High), PriorityRole>>, <<VString(<<"1">>), PriorityRole>>,
      <<VInt(High), CreatedAtRole>>, <<VInt(High), TaskObjectRole>>,
      <<VString(<<"a">>), DisplayRole>> }

--------------------------------------------------------------------------
(* A call of a specification that constructs at most cap tasks in a run    *)
(* and is not part of the workflow scenario.                               *)

Within(cap, call) == call /\ nextId' <= cap /\ wf' = wf

--------------------------------------------------------------------------
(* Spec: the calls that change the list or a completed flag, on lists of   *)
(* up to MaxCreated tasks.                                                 *)

Next ==
    \/ \E t \in BlankTitles \cup PlainTitles, p \in {Low - 1, Medium, High + 1} :
          Within(MaxCreated, CreateTask(t, <<>>, p))
    \/ \E i \in Positions : Within(MaxCreated, DeleteTask(i))
    \/ \E i \in Positions : Within(MaxCreated, ToggleTask(i))
    \/ Within(MaxCreated, ClearCompletedTasks)
    \/ Within(MaxCreated, LoadSampleData)
    \/ \E t \in BlankTitles \cup PlainTitles : Within(MaxCreated, AddTask(t, <<>>))
    \/ \E i \in Positions : Within(MaxCreated, RemoveTask(i))
    \/ \E i \in Positions : Within(MaxCreated, ToggleCompleted(i))
    \/ Within(MaxCreated, ClearCompleted)
    \/ \E i \in Positions, v \in CompletedValues :
          Within(MaxCreated, SetData(i, v, CompletedRole))
    \/ \E i \in Positions, role \in RefusedRoles :
          Within(MaxCreated, SetData(i, VBool(TRUE), role))
    \/ \E i \in Positions, comp \in Bools : Within(MaxCreated, SetCompleted(i, comp))

Spec == Init /\ [][Next]_vars

--------------------------------------------------------------------------
(* SpecCreate: tasks created with every kind of title, description and     *)
(* priority, and removed, on lists of up to MaxCreateTasks tasks.          *)

NextCreate ==
    \/ \E t \in Titles, d \in Descriptions, p \in Priorities :
          Within(MaxCreateTasks, CreateTask(t, d, p))
    \/ \E t \in Titles, d \in Descriptions : Within(MaxCreateTasks, AddTask(t, d))
    \/ \E i \in Positions : Within(MaxCreateTasks, DeleteTask(i))

SpecCreate == Init /\ [][NextCreate]_vars

--------------------------------------------------------------------------
(* SpecPriority: the priority of a task written by every path, on lists of *)
(* up to MaxPriorityTasks tasks.                                           *)

NextPriority ==
    \/ \E p \in Priorities : Within(MaxPriorityTasks, CreateTask(<<"a">>, <<>>, p))
    \/ \E i \in Positions : Within(MaxPriorityTasks, DeleteTask(i))
    \/ \E i \in Positions, v \in PriorityValues :
          Within(MaxPriorityTasks, SetData(i, v, PriorityRole))
    \/ \E i \in Positions, prio \in Priorities :
          Within(MaxPriorityTasks, SetPriority(i, prio))

SpecPriority == Init /\ [][NextPriority]_vars

--------------------------------------------------------------------------
(* SpecWorkflow: the scenario of the integration test, from the empty      *)
(* controller: three tasks created with priorities High, Medium and Low,   *)
(* the first two toggled, the completed ones cleared.  Titles and          *)
(* descriptions are free.                                                  *)

WorkflowTitles == PlainTitles \cup InnerTitles

NextWorkflow ==
    \/ wf = 0 /\ wf' = 1 /\ \E t \in WorkflowTitles, d \in Descriptions : CreateTask(t, d, High)
    \/ wf = 1 /\ wf' = 2 /\ \E t \in WorkflowTitles, d \in Descriptions : CreateTask(t, d, Medium)
    \/ wf = 2 /\ wf' = 3 /\ \E t \in WorkflowTitles, d \in Descriptions : CreateTask(t, d, Low)
    \/ wf = 3 /\ wf' = 4 /\ ToggleTask(0)
    \/ wf = 4 /\ wf' = 5 /\ ToggleTask(1)
    \/ wf = 5 /\ wf' = 6 /\ ClearCompletedTasks

SpecWorkflow == Init /\ [][NextWorkflow]_vars

--------------------------------------------------------------------------
(* SpecFields: the fields of the tasks of a list written by every path,    *)
(* a setter on the task, setData and toggleCompleted, on lists of up to    *)
(* MaxFieldTasks tasks.                                                    *)

NextFields ==
    \/ Within(MaxFieldTasks, CreateTask(<<"a">>, <<>>, Medium))
    \/ \E i \in Positions : Within(MaxFieldTasks, RemoveTask(i))
    \/ \E i \in Positions, ttl \in FieldTitles : Within(MaxFieldTasks, SetTitle(i, ttl))
    \/ \E i \in Positions, desc \in FieldDescriptions :
          Within(MaxFieldTasks, SetDescription(i, desc))
    \/ \E i \in Positions, comp \in Bools : Within(MaxFieldTasks, SetCompleted(i, comp))
    \/ \E i \in Positions, prio \in FieldPriorities :
          Within(MaxFieldTasks, SetPriority(i, prio))
    \/ \E i \in Positions, w \in FieldWrites :
          Within(MaxFieldTasks, SetData(i, w[1], w[2]))
    \/ \E i \in Positions : Within(MaxFieldTasks, ToggleCompleted(i))
    \/ Within(MaxFieldTasks, ClearCompleted)

SpecFields == Init /\ [][NextFields]_vars

--------------------------------------------------------------------------
(* SpecQuery: the index queries of the controller on lists of up to        *)
(* MaxQueryTasks tasks of every priority, completed and pending.           *)

NextQuery ==
    \/ \E p \in Priorities : Within(MaxQueryTasks, CreateTask(<<"a">>, <<>>, p))
    \/ \E i \in Positions : Within(MaxQueryTasks, DeleteTask(i))
    \/ \E i \in Positions : Within(MaxQueryTasks, ToggleTask(i))
    \/ \E p \in Priorities : Within(MaxQueryTasks, GetTasksByPriority(p))
    \/ Within(MaxQueryTasks, GetCompletedTasks)
    \/ Within(MaxQueryTasks, GetPendingTasks)

SpecQuery == Init /\ [][NextQuery]_vars

--------------------------------------------------------------------------
(* SpecController: the calls of the controller alone, with blank and       *)
(* padded titles and every priority, on lists of up to MaxControllerTasks  *)
(* tasks.                                                                  *)

ControllerTitles == { <<" ", "\t">>, <<" ", "a", " ">> }
\* A priority of the range and one on each side of it; loadSampleData brings
\* the other two of the range.
ControllerPriorities == {Low - 1, High, High + 1}

NextController ==
    \/ \E t \in ControllerTitles, p \in ControllerPriorities :
          Within(MaxControllerTasks, CreateTask(t, <<>>, p))
    \/ \E i \in Positions : Within(MaxControllerTasks, DeleteTask(i))
    \/ \E i \in Positions : Within(MaxControllerTasks, ToggleTask(i))
    \/ Within(MaxControllerTasks, ClearCompletedTasks)
    \/ Within(MaxControllerTasks, LoadSampleData)

SpecController == Init /\ [][NextController]_vars

--------------------------------------------------------------------------
(* Vocabulary of the properties.                                           *)

IdsOf(ts) == {ts[k].id : k \in 1..Len(ts)}

Emitted(log, name) == \E k \in 1..Len(log) : log[k].sig = name

ValidRows == 0..(Len(tasks) - 1)

InRange(p) == p \in {Low, Medium, High}

NonBlank(t) == ~ isEmpty(trimmed(t))

IsClear(name) == name \in {"clearCompleted", "clearCompletedTasks"}

\* The record a successful createTask or addTask has just appended.
Newest == tasks'[Len(tasks')]

--------------------------------------------------------------------------
(* C1.  In every reachable state completedTasks() + pendingTasks() equals  *)
(* totalTasks(), completedTasks() is the number of records whose completed *)
(* flag is set, and none of the three is negative.                         *)

C1_StatisticsAddUp ==
    /\ completedTasks(tasks) + pendingTasks(tasks) = totalTasks(tasks)
    /\ completedTasks(tasks) = Cardinality({k \in 1..Len(tasks) : tasks[k].completed})
    /\ totalTasks(tasks) >= 0
    /\ completedTasks(tasks) >= 0
    /\ pendingTasks(tasks) >= 0

\* A removal has left completed and pending records side by side.
C1_Witness ==
    /\ op = "deleteTask" /\ ret = True
    /\ completedTasks(tasks) >= 2
    /\ pendingTasks(tasks) >= 1

--------------------------------------------------------------------------
(* C2.  In every reachable state, createTask with a title that is not      *)
(* blank, any description and any priority returns true, makes the list    *)
(* one longer, puts the new record last and leaves every earlier record at *)
(* its index with its fields.                                              *)

C2_CreateAppendsOne ==
    \A t \in Titles, d \in Descriptions, p \in Priorities :
        NonBlank(t) =>
            LET after == createTask(M, t, d, p).m.tasks
            IN  /\ createTask(M, t, d, p).ret = True
                /\ totalTasks(after) = totalTasks(tasks) + 1
                /\ after[Len(after)].id \notin IdsOf(tasks)
                /\ \A k \in 1..Len(tasks) : after[k] = tasks[k]

\* A task was created behind an existing one.
C2_Witness ==
    /\ op = "createTask" /\ ret = True
    /\ Len(tasks) >= 2
    /\ tasks[Len(tasks)].id = nextId

--------------------------------------------------------------------------
(* C3.  After a successful createTask with a priority among Low, Medium    *)
(* and High the new record has the description and priority passed in, is  *)
(* not completed, and has as title the trimmed form of the title passed in.*)

C3_NewRecordMatchesTrimmedInputs ==
    [][\A t \in Titles, d \in Descriptions, p \in Priorities :
          (op' = "createTask" /\ ret' = True /\ InRange(p) /\ CreateTask(t, d, p)) =>
              /\ Newest.title = trimmed(t)
              /\ Newest.description = d
              /\ Newest.priority = p
              /\ Newest.completed = FALSE]_vars

\* The claim as stated: the title is the title passed in.
C3_NewRecordMatchesInputs ==
    [][\A t \in Titles, d \in Descriptions, p \in Priorities :
          (op' = "createTask" /\ ret' = True /\ InRange(p) /\ CreateTask(t, d, p)) =>
              /\ Newest.title = t
              /\ Newest.description = d
              /\ Newest.priority = p
              /\ Newest.completed = FALSE]_vars

\* A task was created from a padded title with a description and priority High.
C3_Witness ==
    /\ op = "createTask" /\ ret = True
    /\ tasks[Len(tasks)].title = <<"b", " ", "c">>
    /\ tasks[Len(tasks)].description = <<" ", "d">>
    /\ tasks[Len(tasks)].priority = High

--------------------------------------------------------------------------
(* C4.  createTask and addTask with an empty or whitespace-only title      *)
(* return false, leave the list as it was and emit no signal at all.       *)

C4_BlankTitleRejected ==
    [][\A t \in Titles, d \in Descriptions, p \in Priorities :
          (op' \in {"createTask", "addTask"} /\ ~ NonBlank(t)
             /\ (CreateTask(t, d, p) \/ AddTask(t, d))) =>
              /\ ret' = False
              /\ tasks' = tasks
              /\ nextId' = nextId
              /\ emitted' = <<>>]_vars

\* createTask was refused on a list that holds a task.
C4_Witness ==
    /\ op = "createTask" /\ ret = False
    /\ emitted = <<>>
    /\ Len(tasks) >= 1

--------------------------------------------------------------------------
(* C5.  removeTask(i) and deleteTask(i) with 0 <= i < length return true,  *)
(* make the list one shorter, leave the records before i where they were,  *)
(* move each record after i down by one with its fields, and the removed   *)
(* record is no longer in the list.                                        *)

C5_RemoveShiftsDown ==
    [][\A i \in ValidRows :
          (op' \in {"removeTask", "deleteTask"} /\ (RemoveTask(i) \/ DeleteTask(i))) =>
              /\ ret' = True
              /\ Len(tasks') = Len(tasks) - 1
              /\ \A j \in 0..(i - 1) : tasks'[j + 1] = tasks[j + 1]
              /\ \A j \in (i + 1)..(Len(tasks) - 1) : tasks'[j] = tasks[j + 1]
              /\ tasks[i + 1].id \notin IdsOf(tasks')]_vars

\* Row 1 was removed from between two records.
C5_Witness ==
    /\ op = "removeTask" /\ ret = True
    /\ emitted[1].sig = "rowsRemoved" /\ emitted[1].row = 1
    /\ Len(tasks) >= 2

--------------------------------------------------------------------------
(* C6.  removeTask(i) and deleteTask(i) with i < 0 or i >= length return   *)
(* false, leave the list as it was and emit no signal at all.              *)

C6_RemoveInvalidRejected ==
    [][\A i \in Positions \ ValidRows :
          (op' \in {"removeTask", "deleteTask"} /\ (RemoveTask(i) \/ DeleteTask(i))) =>
              /\ ret' = False
              /\ tasks' = tasks
              /\ emitted' = <<>>]_vars

\* deleteTask was refused on a list that holds tasks.
C6_Witness ==
    /\ op = "deleteTask" /\ ret = False
    /\ emitted = <<>>
    /\ Len(tasks) >= 2

--------------------------------------------------------------------------
(* C7.  clearCompletedTasks() is idempotent: in the state a call of it (or *)
(* of clearCompleted) leaves, a second call changes no record and emits no *)
(* signal.                                                                 *)

C7_ClearIsIdempotent ==
    IsClear(op) =>
        /\ clearCompletedTasks(M) = Result(M, Void, <<>>)
        /\ clearCompleted(M) = Result(M, Void, <<>>)

\* A call removed two records and left others.
C7_Witness ==
    /\ op = "clearCompletedTasks"
    /\ Len(emitted) >= 2 * Len(<<"rowsRemoved">> \o countChanged(tasks))
    /\ Len(tasks) >= 1

--------------------------------------------------------------------------
(* C8.  The workflow: after the three creations the counts are 3 total, 3  *)
(* pending, 0 completed; after the two toggles 3 total, 2 completed, 1     *)
(* pending; after clearCompletedTasks 1 total, 1 pending, 0 completed, and *)
(* the record at index 0 is the third task created, Low and not completed. *)

Counts == <<totalTasks(tasks), completedTasks(tasks), pendingTasks(tasks)>>

C8_Workflow ==
    /\ wf = 3 => Counts = <<3, 0, 3>>
    /\ wf = 5 => Counts = <<3, 2, 1>>
    /\ wf = 6 => /\ Counts = <<1, 0, 1>>
                 /\ tasks[1].id = 3
                 /\ getPriority(tasks[1]) = Low
                 /\ getCompleted(tasks[1]) = FALSE

\* The scenario has run to its end.
C8_Witness == wf = 6 /\ op = "clearCompletedTasks"

--------------------------------------------------------------------------
(* C9.  Setting a priority outside Low..High, by setPriority or by setData *)
(* with the priority selector, leaves the task's priority as it was and    *)
(* emits no priorityChanged.                                               *)

C9_OutOfRangePriorityIgnored ==
    [][\A i \in ValidRows, p \in Priorities :
          (op' \in {"setPriority", "setData"} /\ ~ InRange(p)
             /\ (SetPriority(i, p) \/ SetData(i, VInt(p), PriorityRole))) =>
              /\ tasks'[i + 1].priority = tasks[i + 1].priority
              /\ ~ Emitted(emitted', "priorityChanged")]_vars

--------------------------------------------------------------------------
(* C10.  In every reachable state every task's priority is Low, Medium or  *)
(* High, and priorityString() is "Low", "Medium" or "High" accordingly.    *)

C10_PriorityAlwaysInRange ==
    \A k \in 1..Len(tasks) :
        /\ InRange(tasks[k].priority)
        /\ priorityString(tasks[k]) =
              <<"Low", "Medium", "High">>[tasks[k].priority + 1]

--------------------------------------------------------------------------
(* C11.  setPriority(p) with p among Low, Medium and High, on a task in    *)
(* any reachable state, leaves getPriority() equal to p and emits          *)
(* priorityChanged exactly when p differs from the priority before.        *)

C11_ValidPriorityStored ==
    [][\A i \in ValidRows, p \in Priorities :
          (op' = "setPriority" /\ InRange(p) /\ SetPriority(i, p)) =>
              /\ getPriority(tasks'[i + 1]) = p
              /\ Emitted(emitted', "priorityChanged") <=> p # getPriority(tasks[i + 1])]_vars

--------------------------------------------------------------------------
(* C12.  Each setter of a task, setTitle, setDescription, setCompleted and *)
(* setPriority: called with the value the field has, it leaves the task as *)
(* it was and emits no change signal; called with another value (for the   *)
(* priority one among Low, Medium and High), it stores the value and emits *)
(* one change signal, that of the field.                                   *)

IsChangeSignal(e) ==
    e.sig \in {"titleChanged", "descriptionChanged", "completedChanged", "priorityChanged"}

\* The change signals of the tasks in a log, in order.
ChangeSignals(log) == SelectSeq(log, IsChangeSignal)

Only(name) == <<Signal(name, NoRow, {}, NoValue)>>

C12_SettersSuppressNoChange ==
    [][\A i \in ValidRows :
          /\ \A ttl \in FieldTitles :
                (op' = "setTitle" /\ SetTitle(i, ttl)) =>
                    IF ttl = getTitle(tasks[i + 1])
                    THEN tasks' = tasks /\ ChangeSignals(emitted') = <<>>
                    ELSE /\ tasks' = [tasks EXCEPT ![i + 1].title = ttl]
                         /\ ChangeSignals(emitted') = Only("titleChanged")
          /\ \A desc \in FieldDescriptions :
                (op' = "setDescription" /\ SetDescription(i, desc)) =>
                    IF desc = getDescription(tasks[i + 1])
                    THEN tasks' = tasks /\ ChangeSignals(emitted') = <<>>
                    ELSE /\ tasks' = [tasks EXCEPT ![i + 1].description = desc]
                         /\ ChangeSignals(emitted') = Only("descriptionChanged")
          /\ \A comp \in Bools :
                (op' = "setCompleted" /\ SetCompleted(i, comp)) =>
                    IF comp = getCompleted(tasks[i + 1])
                    THEN tasks' = tasks /\ ChangeSignals(emitted') = <<>>
                    ELSE /\ tasks' = [tasks EXCEPT ![i + 1].completed = comp]
                         /\ ChangeSignals(emitted') = Only("completedChanged")
          /\ \A prio \in FieldPriorities :
                (op' = "setPriority" /\ InRange(prio) /\ SetPriority(i, prio)) =>
                    IF prio = getPriority(tasks[i + 1])
                    THEN tasks' = tasks /\ ChangeSignals(emitted') = <<>>
                    ELSE /\ tasks' = [tasks EXCEPT ![i + 1].priority = prio]
                         /\ ChangeSignals(emitted') = Only("priorityChanged")]_vars

--------------------------------------------------------------------------
(* C13.  Every call that changes the number of tasks or the completed flag *)
(* of a task, by the controller, by the model or by setCompleted on a task *)
(* of the model, makes the controller emit totalTasksChanged,              *)
(* completedTasksChanged and pendingTasksChanged before it returns.        *)

\* The three statistics signals are in the log.
Republished(log) ==
    /\ Emitted(log, "totalTasksChanged")
    /\ Emitted(log, "completedTasksChanged")
    /\ Emitted(log, "pendingTasksChanged")

\* The step changed the completed flag of a task that stays in the list.
CompletedFlagChanges ==
    \E k \in 1..Len(tasks), j \in 1..Len(tasks') :
        tasks[k].id = tasks'[j].id /\ tasks[k].completed # tasks'[j].completed

C13_StatisticsRepublished ==
    [][(Len(tasks') # Len(tasks) \/ CompletedFlagChanges) => Republished(emitted')]_vars

--------------------------------------------------------------------------
(* C14.  toggleCompleted(i) and toggleTask(i) with 0 <= i < length flip    *)
(* the completed flag of the record at i and change nothing else: not the  *)
(* length, the order, another record, nor the title, description, priority *)
(* or createdAt of record i.  With i < 0 or i >= length no record changes. *)

C14_ToggleFlipsOneFlag ==
    [][\A i \in Positions :
          (op' \in {"toggleCompleted", "toggleTask"}
             /\ (ToggleCompleted(i) \/ ToggleTask(i))) =>
              /\ nextId' = nextId
              /\ IF i \in ValidRows
                 THEN tasks' = [tasks EXCEPT ![i + 1].completed = ~ tasks[i + 1].completed]
                 ELSE tasks' = tasks]_vars

\* Row 1 of three was toggled back to pending between two completed records.
C14_Witness ==
    /\ op = "toggleCompleted"
    /\ Len(tasks) = 3
    /\ emitted # <<>>
    /\ emitted[Len(emitted)].sig = "dataChanged" /\ emitted[Len(emitted)].row = 1
    /\ <<tasks[1].completed, tasks[2].completed, tasks[3].completed>> = <<TRUE, FALSE, TRUE>>

--------------------------------------------------------------------------
(* C15.  getTasksByPriority(p), getCompletedTasks() and getPendingTasks()  *)
(* return exactly the indices of the records with priority p, with the     *)
(* completed flag set, with it clear: each index once, in strictly         *)
(* ascending order, the list left as it was; for a p no record has,        *)
(* getTasksByPriority(p) returns the empty list.                           *)

\* indices lists exactly the rows of the set, each once, ascending.
ListsExactly(indices, rows) ==
    /\ {indices[k] : k \in 1..Len(indices)} = rows
    /\ \A k \in 1..(Len(indices) - 1) : indices[k] < indices[k + 1]

RowsWithPriority(p) == {i \in ValidRows : tasks[i + 1].priority = p}
RowsCompleted == {i \in ValidRows : tasks[i + 1].completed}
RowsPending == {i \in ValidRows : ~ tasks[i + 1].completed}

C15_QueriesListMatchingRows ==
    [][/\ \A p \in Priorities :
             (op' = "getTasksByPriority" /\ GetTasksByPriority(p)) =>
                 /\ ListsExactly(ret', RowsWithPriority(p))
                 /\ RowsWithPriority(p) = {} => ret' = <<>>
                 /\ tasks' = tasks
       /\ (op' = "getCompletedTasks" /\ GetCompletedTasks) =>
                 ListsExactly(ret', RowsCompleted) /\ tasks' = tasks
       /\ (op' = "getPendingTasks" /\ GetPendingTasks) =>
                 ListsExactly(ret', RowsPending) /\ tasks' = tasks]_vars

\* getTasksByPriority found rows 0 and 2 of three, around a row it passed over.
C15_Witness ==
    /\ op = "getTasksByPriority"
    /\ ret = <<0, 2>>
    /\ Len(tasks) = 3
    /\ tasks[2].completed

--------------------------------------------------------------------------
(* C16.  After clearCompleted() or clearCompletedTasks() no record with    *)
(* the completed flag set remains, every record that was pending is still  *)
(* in the list with all its fields, the records left keep their order, and *)
(* totalTasks() is what pendingTasks() was before the call.                *)

IsPending(task) == ~ task.completed

C16_ClearKeepsPending ==
    [][(IsClear(op') /\ (ClearCompleted \/ ClearCompletedTasks)) =>
          /\ \A k \in 1..Len(tasks') : ~ tasks'[k].completed
          /\ \A k \in 1..Len(tasks) :
                IsPending(tasks[k]) => \E j \in 1..Len(tasks') : tasks'[j] = tasks[k]
          /\ tasks' = SelectSeq(tasks, IsPending)
          /\ totalTasks(tasks') = pendingTasks(tasks)]_vars

\* A call removed rows 0 and 2 of four and kept the two pending ones.
C16_Witness ==
    /\ op = "clearCompleted"
    /\ Len(tasks) = 2
    /\ Len(emitted) >= 2
    /\ emitted[1].sig = "rowsRemoved" /\ emitted[1].row = 2
    /\ \E k \in 2..Len(emitted) : emitted[k].sig = "rowsRemoved" /\ emitted[k].row = 0

--------------------------------------------------------------------------
(* C17.  In every reachable state, reading with an index out of range     *)
(* gives the invalid QVariant and getTask with one gives nullptr; setData  *)
(* with an index out of range, or with the selector of createdAt, of the   *)
(* task object or an unknown one, returns false, leaves every record as it *)
(* was and emits no dataChanged.                                           *)

Roles == {DisplayRole, TitleRole, DescriptionRole, CompletedRole,
          CreatedAtRole, PriorityRole, TaskObjectRole}

\* The rows no task is at: the invalid index and a stale one past the end.
RowsOutOfRange == {NoRow, Len(tasks), Len(tasks) + 1}

C17_OutOfRangeAndRefusedAccess ==
    /\ \A i \in RowsOutOfRange, role \in Roles :
          /\ data(tasks, i, role) = VInvalid
          /\ data(tasks, index(tasks, i), role) = VInvalid
    /\ \A i \in RowsOutOfRange : getTask(tasks, i) = nullptr
    /\ \A i \in Positions \cup RowsOutOfRange, w \in FieldWrites :
          (i \notin ValidRows \/ w[2] \in RefusedRoles) =>
              /\ setData(M, index(tasks, i), w[1], w[2]) = Result(M, False, <<>>)
              /\ i \notin ValidRows => setData(M, i, w[1], w[2]) = Result(M, False, <<>>)

\* setData was refused on a list of two and nothing was emitted.
C17_Witness ==
    /\ op = "setData" /\ ret = False
    /\ emitted = <<>>
    /\ Len(tasks) = 2
    /\ tasks[2].completed

--------------------------------------------------------------------------
(* C18.  The createdAt of a task never changes after construction: across  *)
(* every call, a setter, setData with any selector, the selector of        *)
(* createdAt included, a toggle, a removal, clearCompleted, a task that is *)
(* still in the list has the createdAt it had.                             *)

C18_CreatedAtNeverChanges ==
    [][\A k \in 1..Len(tasks), j \in 1..Len(tasks') :
          tasks'[j].id = tasks[k].id =>
              getDateTime(tasks'[j]) = getDateTime(tasks[k])]_vars

\* The second task constructed, every other field of it written, is left
\* alone in the list by the removal of the first, with the clock reading of
\* its construction.
C18_Witness ==
    /\ op = "removeTask" /\ ret = True
    /\ Len(tasks) = 1
    /\ tasks[1].id = 2
    /\ getDateTime(tasks[1]) = currentDateTime(2)
    /\ tasks[1].title = <<" ">>
    /\ tasks[1].description = <<"d">>
    /\ tasks[1].completed
    /\ tasks[1].priority = High

--------------------------------------------------------------------------
(* C19.  Whatever the path by which a field of a task of the list is       *)
(* written, setData, toggleCompleted or a setter on the task getTask       *)
(* returns, the call emits a dataChanged for the row the task is at whose  *)
(* roles name the field written, so that a slot filtering on CompletedRole *)
(* sees every change of a completed flag.                                  *)

\* A dataChanged of the log is for the row and names the role.
Names(log, row, role) ==
    \E n \in 1..Len(log) :
        log[n].sig = "dataChanged" /\ log[n].row = row /\ role \in log[n].roles

C19_DataChangedNamesField ==
    [][\A k \in 1..Len(tasks), j \in 1..Len(tasks') :
          tasks'[j].id = tasks[k].id =>
              /\ tasks'[j].title # tasks[k].title => Names(emitted', j - 1, TitleRole)
              /\ tasks'[j].description # tasks[k].description =>
                    Names(emitted', j - 1, DescriptionRole)
              /\ tasks'[j].completed # tasks[k].completed =>
                    Names(emitted', j - 1, CompletedRole)
              /\ tasks'[j].priority # tasks[k].priority =>
                    Names(emitted', j - 1, PriorityRole)]_vars

--------------------------------------------------------------------------
(* C20.  The call of updateStatistics() in toggleTask is redundant: for    *)
(* every row, the dataChanged that toggleCompleted raises already makes    *)
(* the controller emit the three statistics signals, so toggleTask without *)
(* that call leaves the same list and publishes the statistics for the     *)
(* same toggles as toggleTask does.                                        *)

C20_ExplicitUpdateRedundant ==
    \A i \in ValidRows :
        /\ Republished(toggleCompleted(M, i).log)
        /\ toggleTask_withoutUpdate(M, i).m = toggleTask(M, i).m
        /\ Republished(toggleTask_withoutUpdate(M, i).log)
              <=> Republished(toggleTask(M, i).log)

--------------------------------------------------------------------------
(* C21.  In every reachable state, createTask with a title that is not     *)
(* blank and a priority outside Low..High succeeds: it returns what        *)
(* addTask returns, true, appends one record, and the record keeps the     *)
(* priority Medium of its construction; the value is never passed to the   *)
(* task, so no setData runs and no priorityChanged is emitted.             *)

--------------------------------------------------------------------------
(* C22.  When only the calls of the controller are used, createTask,       *)
(* deleteTask, toggleTask, clearCompletedTasks and loadSampleData with any *)
(* arguments, every record of the list is valid in every reachable state:  *)
(* its title trimmed is not empty, and its priority is Low, Medium or      *)
(* High.                                                                   *)

C22_ControllerKeepsRecordsValid ==
    \A k \in 1..Len(tasks) :
        /\ isValid(tasks[k])
        /\ ~ isEmpty(trimmed(getTitle(tasks[k])))
        /\ InRange(getPriority(tasks[k]))

\* Tasks created with the priority High, one below Low and High again, the
\* second of them completed, after a refused creation.
C22_Witness ==
    /\ op = "createTask" /\ ret = False
    /\ Len(tasks) = 3
    /\ <<getPriority(tasks[1]), getPriority(tasks[2]), getPriority(tasks[3])>>
          = <<High, Medium, High>>
    /\ tasks[2].completed

--------------------------------------------------------------------------
(* C23.  When the controller emits its statistics signals the change of    *)
(* the list that caused them is already made: a slot that reads            *)
(* totalTasks(), completedTasks() and pendingTasks() inside the signal     *)
(* reads the values after the change, the task appended counted, the task  *)
(* removed gone, the flag flipped, never those before it.  In a call that  *)
(* makes several changes, clearCompleted or loadSampleData, the n-th       *)
(* publication reads the values after the n-th change.                     *)

\* What the slots of one statistics signal read, publication by publication.
RECURSIVE SeenBy(_, _)
SeenBy(log, name) ==
    IF log = <<>> THEN <<>>
    ELSE (IF Head(log).sig = name THEN <<Head(log).seen>> ELSE <<>>) \o SeenBy(Tail(log), name)

\* Every publication of the log read these values.
AllSaw(log, total, completed, pending) ==
    /\ \A n \in 1..Len(SeenBy(log, "totalTasksChanged")) :
          SeenBy(log, "totalTasksChanged")[n] = total
    /\ \A n \in 1..Len(SeenBy(log, "completedTasksChanged")) :
          SeenBy(log, "completedTasksChanged")[n] = completed
    /\ \A n \in 1..Len(SeenBy(log, "pendingTasksChanged")) :
          SeenBy(log, "pendingTasksChanged")[n] = pending

\* The n-th publication read the values before the call moved n times by the step.
NthSaw(log, total, completed, pending, dTotal, dCompleted, dPending) ==
    /\ \A n \in 1..Len(SeenBy(log, "totalTasksChanged")) :
          SeenBy(log, "totalTasksChanged")[n] = total + n * dTotal
    /\ \A n \in 1..Len(SeenBy(log, "completedTasksChanged")) :
          SeenBy(log, "completedTasksChanged")[n] = completed + n * dCompleted
    /\ \A n \in 1..Len(SeenBy(log, "pendingTasksChanged")) :
          SeenBy(log, "pendingTasksChanged")[n] = pending + n * dPending

C23_StatisticsSeeCommittedChange ==
    [][/\ (~ IsClear(op') /\ op' # "loadSampleData") =>
             AllSaw(emitted', totalTasks(tasks'), completedTasks(tasks'), pendingTasks(tasks'))
       /\ IsClear(op') =>
             NthSaw(emitted', totalTasks(tasks), completedTasks(tasks), pendingTasks(tasks),
                    -1, -1, 0)
       /\ op' = "loadSampleData" =>
             NthSaw(emitted', totalTasks(tasks), completedTasks(tasks), pendingTasks(tasks),
                    1, 0, 1)]_vars

\* A task was removed and a completed and a pending one are left: the slots
\* of the three signals read the counts without it.
C23_Witness ==
    /\ op = "deleteTask" /\ ret = True
    /\ Len(emitted) = Len(<<"rowsRemoved">> \o countChanged(tasks))
    /\ SeenBy(emitted, "totalTasksChanged") = <<2>>
    /\ SeenBy(emitted, "completedTasksChanged") = <<1>>
    /\ SeenBy(emitted, "pendingTasksChanged") = <<1>>

--------------------------------------------------------------------------
(* C24.  clearCompletedTasks() on a list with k completed records removes  *)
(* them one at a time in descending order of index and emits countChanged  *)
(* and each statistics signal k times, none when k = 0.  At each of these  *)
(* publications the list is an intermediate one in which completedTasks()  *)
(* + pendingTasks() = totalTasks(), and every index below the one just     *)
(* removed still holds the record it held before the call.                 *)

\* The rows of the rowsRemoved signals of a log, in order.
RECURSIVE RemovedRows(_)
RemovedRows(log) ==
    IF log = <<>> THEN <<>>
    ELSE (IF Head(log).sig = "rowsRemoved" THEN <<Head(log).row>> ELSE <<>>)
            \o RemovedRows(Tail(log))

\* The list after the rows were taken out of it one after the other.
RECURSIVE AfterRemovals(_, _)
AfterRemovals(ts, rows) ==
    IF rows = <<>> THEN ts ELSE AfterRemovals(takeAt(ts, Head(rows)), Tail(rows))

--------------------------------------------------------------------------
(* C25.  In every reachable state getCompletedTasks() and                  *)
(* getPendingTasks() partition the rows: no index is in both, together     *)
(* they hold exactly 0 .. totalTasks() - 1, and they are as long as        *)
(* completedTasks() and pendingTasks() say.                                *)

Indices(list) == {list[k] : k \in 1..Len(list)}

C25_CompletedAndPendingPartitionRows ==
    /\ Indices(getCompletedTasks(tasks)) \cap Indices(getPendingTasks(tasks)) = {}
    /\ Indices(getCompletedTasks(tasks)) \cup Indices(getPendingTasks(tasks))
          = 0..(totalTasks(tasks) - 1)
    /\ Len(getCompletedTasks(tasks)) = completedTasks(tasks)
    /\ Len(getPendingTasks(tasks)) = pendingTasks(tasks)

\* getPendingTasks returned rows 0 and 2 of three; row 1 is the completed one.
C25_Witness ==
    /\ op = "getPendingTasks"
    /\ ret = <<0, 2>>
    /\ getCompletedTasks(tasks) = <<1>>
    /\ totalTasks(tasks) = 3

==========================================================================
